---- MODULE Spec2Model ----
(***************************************************************************)
(* StudywithMe: a study-assistant chat application.                        *)
(*                                                                         *)
(* The module models the parts of the program, each with its own           *)
(* specification over its own variables:                                   *)
(*   SpecMemory   core/memory.py      ShortTermMemory                      *)
(*   SpecSession  core/memory.py      MemoryManager and LongTermMemory      *)
(*   SpecUpload   components/pdf_handler.py + sidebar.py + rag_system.py   *)
(*                the upload / reset handlers of one session               *)
(*   SpecRagApi   core/rag_system.py  RAGSystem called directly            *)
(*   SpecAgent    core/agent.py       StudyBuddyAgent.execute, step by step *)
(*   SpecPlanner  core/planner.py     AgentPlanner.create_plan             *)
(*   SpecChat     components/chat_ui.py   one chat session in agentic mode: *)
(*                the agent, the memory and the chat log together          *)
(*   SpecTools    core/tools.py       ToolRegistry.suggest_tools            *)
(*   SpecSummarize  core/summarizer.py  the three callers of summarize_text *)
(*                on top of the upload handlers                            *)
(*   SpecLlm      utils/groq_helper.py, utils/gemini_helper.py             *)
(* Spec is the interleaving of the parts the application itself drives     *)
(* (RAGSystem is reached through the upload handlers there).               *)
(***************************************************************************)
EXTENDS Integers, Sequences, FiniteSets, TLC

VARIABLES
    \* ---- core/memory.py: ShortTermMemory
    max_turns,          \* self.max_turns
    conversation,       \* self.conversation: the list of ConversationTurn
    current_context,    \* self.current_context: list of lines (joined by "\n")
    clock,              \* datetime.now(): a logical clock, one tick per turn
    added,              \* history: every turn passed to add_turn since the last clear()
    recorded,           \* history: the arguments of those add_turn calls, as passed
    last_read,          \* history: the last read of the memory and what it returned
    study_sessions,     \* LongTermMemory.study_sessions
    \* ---- core/rag_system.py: RAGSystem
    embeddings,         \* self.embeddings is not None
    vectorstore,        \* self.vectorstore: None or the index (the text it was built from)
    chunk_count,        \* self.chunk_count
    last_call,          \* history: the last call made on the RAGSystem and what it returned
    pre_call,           \* history: vectorstore and chunk_count just before that call
    \* ---- st.session_state (main.py, pdf_handler.py, sidebar.py)
    uploaded_file,      \* the file held by st.file_uploader, or None
    pdf_raw,            \* session_state["pdf_raw"], or Absent
    last_upload_name,   \* session_state["last_upload_name"], or Absent
    pdf_content,        \* session_state.pdf_content
    rag_enabled,        \* session_state.rag_enabled
    \* ---- core/agent.py: StudyBuddyAgent
    tools_used,         \* self.tools_used (never reset by the agent)
    current_plan,       \* self.current_plan
    pc,                 \* position inside execute(): idle, exec, synth, done, raised
    user_request,       \* argument of the running execute()
    plan,               \* local variable plan of execute()
    step_index,         \* number of steps of the for loop already completed
    results,            \* local variable results of execute()
    final_response,     \* value returned by _synthesize_response
    llm_calls,          \* history: generate_response calls made by the agent for this request
    invoked,            \* history: tools passed to _execute_tool for this request, in call order
    tools_at_start,     \* history: len(self.tools_used) when this execute() was called
    requests_made,      \* history: number of execute() calls started
    exception,          \* the exception that left execute(), or None
    \* ---- core/planner.py: AgentPlanner
    planning_history,   \* self.planning_history
    planner_call,       \* history: the last create_plan call and the plan it returned
    \* ---- components/chat_ui.py: the chat session
    messages,           \* session_state.messages
    show_thinking,      \* session_state.show_thinking
    turn_tools,         \* history: for every add_turn since the last clear(), the tools
                        \* the steps of that request invoked
    \* ---- core/tools.py: ToolRegistry
    suggest_call,       \* history: the last suggest_tools call and what it returned
    \* ---- core/tools.py: ToolExecutor
    execution_history,  \* self.execution_history
    executor_returns,   \* history: what every execute call returned, in call order
    \* ---- core/summarizer.py and its callers
    user_focus,         \* session_state.user_focus
    summary_call,       \* history: the summarize_text call of the last handler run
    \* ---- utils/groq_helper.py, utils/gemini_helper.py
    llm_config,         \* the module globals set at import time
    llm_call            \* history: the last generate_response call and what it returned

memVars     == <<max_turns, conversation, current_context, clock, added, recorded,
                 last_read, study_sessions>>
ragVars     == <<embeddings, vectorstore, chunk_count, last_call, pre_call>>
sessionVars == <<uploaded_file, pdf_raw, last_upload_name, pdf_content, rag_enabled>>
agentVars   == <<tools_used, current_plan, pc, user_request, plan, step_index, results,
                 final_response, llm_calls, invoked, tools_at_start, requests_made,
                 exception>>
plannerVars == <<planning_history, planner_call>>
chatVars    == <<messages, show_thinking, turn_tools>>
toolVars    == <<suggest_call, execution_history, executor_returns>>
summaryVars == <<user_focus, summary_call>>
llmVars     == <<llm_config, llm_call>>
otherVars   == <<toolVars, llmVars>>
vars        == <<memVars, ragVars, sessionVars, agentVars, plannerVars, chatVars,
                 toolVars, summaryVars, llmVars>>

\* What an action of one part leaves alone.
memFrame     == UNCHANGED <<ragVars, sessionVars, agentVars, plannerVars, chatVars,
                            summaryVars, otherVars>>
uploadFrame  == /\ UNCHANGED <<memVars, agentVars, plannerVars, chatVars, otherVars>>
                /\ UNCHANGED user_focus
                /\ summary_call' = [op |-> "none"]
ragApiFrame  == UNCHANGED <<memVars, sessionVars, agentVars, plannerVars, chatVars,
                            summaryVars, otherVars>>
agentFrame   == UNCHANGED <<memVars, ragVars, sessionVars, plannerVars, chatVars,
                            summaryVars, otherVars>>
plannerFrame == UNCHANGED <<memVars, ragVars, sessionVars, agentVars, chatVars,
                            summaryVars, otherVars>>
chatFrame    == UNCHANGED <<ragVars, sessionVars, plannerVars, summaryVars, otherVars>>
toolFrame    == UNCHANGED <<memVars, ragVars, sessionVars, agentVars, plannerVars,
                            chatVars, summaryVars, llmVars>>
llmFrame     == UNCHANGED <<memVars, ragVars, sessionVars, agentVars, plannerVars,
                            chatVars, summaryVars, toolVars>>

None   == [none |-> TRUE]       \* Python None, where the other values are records
Absent == [absent |-> TRUE]     \* a key that is not in st.session_state
NoName == "<absent>"            \* the same, where the other values are strings

Min(a, b) == IF a <= b THEN a ELSE b
Max(a, b) == IF a >= b THEN a ELSE b

Range(seq) == { seq[i] : i \in 1..Len(seq) }

\* Python's s[-n:] on a list, for n >= 1: the last min(n, len) elements.
LastN(s, n) == SubSeq(s, Len(s) - Min(n, Len(s)) + 1, Len(s))

(***************************************************************************)
(* Strings with a length.  A string is [body, len]: the first len          *)
(* characters of the text named body.  Python's s[:k] keeps the body and   *)
(* cuts the length.                                                        *)
(***************************************************************************)
Str(body, len) == [body |-> body, len |-> len]
Prefix(s, k)   == [body |-> s.body, len |-> Min(s.len, k)]

(***************************************************************************)
(* core/memory.py: ShortTermMemory                                         *)
(***************************************************************************)
\* Bounds of the memory model.
MaxWindow == 3      \* max_turns ranges over 0..MaxWindow
MaxAdds   == 4      \* total number of add_turn calls in a behaviour

ResponseCap == 500  \* agent_response[:500]
ContextCap  == 200  \* turn.agent_response[:200]
ContextTurns == 5   \* self.conversation[-5:]

\* The (user_input, agent_response, tools_used, plan_complexity) passed to add_turn.
TurnInputs ==
    { [user_input |-> "explain photosynthesis", agent_response |-> Str("r1", 120),
       tools_used |-> <<"concept_explainer">>, plan_complexity |-> "simple"],
      [user_input |-> "quiz me", agent_response |-> Str("r2", 501),
       tools_used |-> <<"concept_explainer", "quiz_generator">>,
       plan_complexity |-> "moderate"],
      [user_input |-> "hi", agent_response |-> Str("r3", 0),
       tools_used |-> <<>>, plan_complexity |-> "simple"] }

\* Mutant of ConversationTurn: the response is stored whole.
ConversationTurn_untruncated(in, now) ==
    [timestamp       |-> now,
     user_input      |-> in.user_input,
     agent_response  |-> in.agent_response,
     tools_used      |-> in.tools_used,
     plan_complexity |-> in.plan_complexity]

\* ConversationTurn(...) as built by add_turn, lines 75-82.
ConversationTurn(in, now) ==
    [timestamp       |-> now,
     user_input      |-> in.user_input,
     agent_response  |-> Prefix(in.agent_response, ResponseCap),
     tools_used      |-> in.tools_used,
     plan_complexity |-> in.plan_complexity]

\* Mutant of add_turn: evicts the newest turn instead of the oldest (pop() for pop(0)).
add_turn_pop_last(conv, turn, limit) ==
    LET appended == Append(conv, turn)
    IN  IF Len(appended) > limit THEN SubSeq(appended, 1, Len(appended) - 1)
        ELSE appended

\* add_turn, lines 84-88: append, then drop the first turn when over the window.
add_turn(conv, turn, limit) ==
    LET appended == Append(conv, turn)
    IN  IF Len(appended) > limit THEN Tail(appended) ELSE appended

RECURSIVE ContextLines(_)
\* _update_context: two lines per turn, in order.
ContextLines(turns) ==
    IF turns = <<>> THEN <<>>
    ELSE << [role |-> "User", text |-> Head(turns).user_input],
            [role |-> "Assistant",
             text |-> Prefix(Head(turns).agent_response, ContextCap)] >>
         \o ContextLines(Tail(turns))

update_context(conv) ==
    IF conv = <<>> THEN <<>> ELSE ContextLines(LastN(conv, ContextTurns))

NoRead == [op |-> "none"]

ManagerMaxTurns == 10   \* MemoryManager: ShortTermMemory(max_turns=10)

\* A ShortTermMemory(max_turns) and an empty LongTermMemory, just constructed.
MemStart ==
    /\ conversation = <<>>
    /\ current_context = <<>>
    /\ clock = 0
    /\ added = <<>>
    /\ recorded = <<>>
    /\ last_read = NoRead
    /\ study_sessions = <<>>

\* The memory of the application: MemoryManager(), lines 257-262.
ManagerInit ==
    /\ max_turns = ManagerMaxTurns
    /\ MemStart

MemInit ==
    /\ max_turns \in 0..MaxWindow
    /\ MemStart

\* The effect of add_turn(in...) at time now on the ShortTermMemory.
CallAddTurn(in, now) ==
    LET turn == ConversationTurn(in, now)
        conv == add_turn(conversation, turn, max_turns)
    IN  /\ conversation' = conv
        /\ current_context' = update_context(conv)
        /\ added' = Append(added, turn)
        /\ recorded' = Append(recorded, in)
        /\ last_read' = NoRead

\* The effect of clear() on the ShortTermMemory.
CallClear ==
    /\ conversation' = <<>>
    /\ current_context' = <<>>
    /\ added' = <<>>
    /\ recorded' = <<>>
    /\ last_read' = NoRead

AddTurn ==
    /\ clock < MaxAdds
    /\ \E in \in TurnInputs : CallAddTurn(in, clock + 1)
    /\ clock' = clock + 1
    /\ UNCHANGED <<max_turns, study_sessions>>
    /\ memFrame

Clear ==
    /\ CallClear
    /\ UNCHANGED <<max_turns, clock, study_sessions>>
    /\ memFrame

(***************************************************************************)
(* The context string.  A string is written as the list of its pieces,     *)
(* each piece the characters from..to of a named text; two strings are     *)
(* equal when their pieces are.  Slicing works on character positions as   *)
(* Python does.                                                            *)
(***************************************************************************)
Seg(body, from, to) == [body |-> body, from |-> from, to |-> to]

Whole(body, n) == IF n = 0 THEN <<>> ELSE << Seg(body, 1, n) >>

\* len() of the literal strings of the model.
StrLen(s) ==
    CASE s = "explain photosynthesis" -> 22
      [] s = "quiz me"                -> 7
      [] s = "hi"                     -> 2
      [] s = "User: "                 -> 6
      [] s = "Assistant: "            -> 11
      [] s = "..."                    -> 3
      [] s = "\n"                     -> 1

Literal(s) == Whole(s, StrLen(s))

\* f"User: {turn.user_input}" and f"Assistant: {turn.agent_response[:200]}..."
LineString(line) ==
    IF line.role = "User" THEN Literal("User: ") \o Literal(line.text)
    ELSE Literal("Assistant: ") \o Whole(line.text.body, line.text.len) \o Literal("...")

RECURSIVE JoinLines(_)
\* "\n".join(context_parts)
JoinLines(lines) ==
    IF lines = <<>> THEN <<>>
    ELSE IF Len(lines) = 1 THEN LineString(lines[1])
    ELSE LineString(Head(lines)) \o Literal("\n") \o JoinLines(Tail(lines))

RECURSIVE StringLen(_)
StringLen(str) ==
    IF str = <<>> THEN 0
    ELSE (Head(str).to - Head(str).from + 1) + StringLen(Tail(str))

RECURSIVE Slice(_, _, _)
\* The characters at the 0-based positions start .. stop - 1.
Slice(str, start, stop) ==
    IF str = <<>> \/ stop <= 0 THEN <<>>
    ELSE LET h == Head(str)
             n == h.to - h.from + 1
             a == Max(start, 0)
             b == Min(stop, n)
         IN  (IF a < b THEN << Seg(h.body, h.from + a, h.from + b - 1) >> ELSE <<>>)
             \o Slice(Tail(str), start - n, stop - n)

\* Python's s[i:] for any integer i: a negative i counts from the end, and -0 is 0.
SliceFrom(str, i) ==
    LET n == StringLen(str)
        start == IF i < 0 THEN Max(n + i, 0) ELSE Min(i, n)
    IN  Slice(str, start, n)

\* Mutant of get_context: keeps the first max_length characters (context[:max_length]).
get_context_head(context, max_length) ==
    LET str == JoinLines(context)
    IN  IF StringLen(str) > max_length THEN Slice(str, 0, max_length) ELSE str

\* get_context(max_length), lines 114-117, on the context lines held.
get_context(context, max_length) ==
    LET str == JoinLines(context)
    IN  IF StringLen(str) > max_length THEN SliceFrom(str, 0 - max_length) ELSE str

\* The max_length arguments of the model (2000 is the default).
ContextLengths == {0, 1, 163, 200, 2000}

GetContext ==
    /\ \E max_length \in ContextLengths :
         last_read' = [op |-> "get_context", max_length |-> max_length,
                       result |-> get_context(current_context, max_length)]
    /\ UNCHANGED <<max_turns, conversation, current_context, clock, added, recorded,
                   study_sessions>>
    /\ memFrame

(***************************************************************************)
(* Tool statistics and sessions: ShortTermMemory.get_tool_usage and        *)
(* MemoryManager.get_session_summary / end_session / start_new_session.    *)
(***************************************************************************)
\* A turn's tools_used is the list object the caller passed.  A caller that passes
\* the agent's own list (chat_ui.py, line 54: result["tools_used"] is
\* self.tools_used) stores this reference; any other list is stored as its value.
AgentToolsList == << "&agent.tools_used" >>

\* The content of the list a turn's tools_used refers to, when it is read.
tools_of(turn) == IF turn.tools_used = AgentToolsList THEN tools_used ELSE turn.tools_used

\* get_tool_usage(): a dict with a key for every tool found, lines 148-152.
get_tool_usage(conv) ==
    LET cells == UNION { { <<i, j>> : j \in 1..Len(tools_of(conv[i])) } : i \in 1..Len(conv) }
        found == { tools_of(conv[c[1]])[c[2]] : c \in cells }
    IN  [ t \in found |->
            Cardinality({ c \in cells : tools_of(conv[c[1]])[c[2]] = t }) ]

\* get_session_summary(): the fields computed from the turn log.
get_session_summary ==
    [tools_used |-> get_tool_usage(conversation),
     total_interactions |-> Len(conversation)]

MaxSessions == 2    \* number of sessions archived in a behaviour

\* StudySession(...) as built by end_session, lines 335-343.
StudySession(summary, pdf_used) ==
    [tools_used_count |-> summary.tools_used,
     total_turns |-> summary.total_interactions,
     pdf_used |-> pdf_used]

\* Mutant of end_session: the session is archived after the turn log was cleared.
end_session_clear_first(sessions, summary, pdf_used) ==
    Append(sessions, [tools_used_count |-> get_tool_usage(<<>>), total_turns |-> 0,
                      pdf_used |-> pdf_used])

\* end_session: the list of sessions after save_session, lines 333-345.
end_session(sessions, summary, pdf_used) ==
    Append(sessions, StudySession(summary, pdf_used))

\* The effect of start_new_session() on the MemoryManager, lines 348-352:
\* end_session() with pdf_used = False, which ends with short_term.clear().
CallStartNewSession ==
    /\ study_sessions' = end_session(study_sessions, get_session_summary, FALSE)
    /\ CallClear

StartNewSession ==
    /\ Len(study_sessions) < MaxSessions
    /\ CallStartNewSession
    /\ UNCHANGED <<max_turns, clock>>
    /\ memFrame

MemNext == AddTurn \/ Clear \/ GetContext

\* The MemoryManager alone: interactions are remembered and sessions are started.
SessionNext == AddTurn \/ StartNewSession

(***************************************************************************)
(* core/rag_system.py: RAGSystem                                           *)
(***************************************************************************)
MinTextLen   == 50      \* len(pdf_text.strip()) < 50
ChunkSize    == 1500    \* chunk_size
ChunkOverlap == 150     \* chunk_overlap

\* A document text: [body, len, strip_len], len = len(text), strip_len = len(text.strip()).
Text(body, len, strip_len) == [body |-> body, len |-> len, strip_len |-> strip_len]

TextEmpty == Text("empty", 0, 0)
TextBlank == Text("blank", 12, 0)          \* whitespace only
TextShort == Text("short", 51, 49)         \* 49 characters between blanks
TextMin   == Text("min", 50, 50)
TextPaper == Text("paper", 9000, 8990)
TextNotes == Text("notes", 1600, 1600)

Texts     == {TextEmpty, TextBlank, TextShort, TextMin, TextPaper, TextNotes}

\* len(text_splitter.split_text(pdf_text)): windows of ChunkSize characters, each
\* starting ChunkSize - ChunkOverlap after the one before; no chunk for blank text.
SplitCount(text) ==
    IF text.strip_len = 0 THEN 0
    ELSE IF text.strip_len <= ChunkSize THEN 1
    ELSE 1 + ((text.strip_len - ChunkSize) + (ChunkSize - ChunkOverlap) - 1)
             \div (ChunkSize - ChunkOverlap)

\* The state of a RAGSystem and the tuple a call returned.
RagResult(success, message, vs, cc) ==
    [success |-> success, message |-> message, vectorstore |-> vs, chunk_count |-> cc]

\* Mutant of process_pdf: the length guard is missing.
process_pdf_no_guard(vs, cc, emb, text, backend_ok) ==
    IF ~emb THEN RagResult(FALSE, "embedding model not initialized", vs, cc)
    ELSE LET n == SplitCount(text)
         IN  IF n = 0 THEN RagResult(FALSE, "no chunks created", vs, n)
             ELSE IF ~backend_ok THEN RagResult(FALSE, "error processing", vs, n)
             ELSE RagResult(TRUE, "rag enabled", [source |-> text, chunks |-> n], n)

\* process_pdf(pdf_text).  backend_ok: Chroma.from_texts returns (TRUE) or raises (FALSE).
process_pdf(vs, cc, emb, text, backend_ok) ==
    IF text.len = 0 \/ text.strip_len < MinTextLen
    THEN RagResult(FALSE, "text too short", vs, cc)
    ELSE IF ~emb THEN RagResult(FALSE, "embedding model not initialized", vs, cc)
    ELSE LET n == SplitCount(text)                       \* self.chunk_count = len(chunks)
         IN  IF n = 0 THEN RagResult(FALSE, "no chunks created", vs, n)
             ELSE IF ~backend_ok THEN RagResult(FALSE, "error processing", vs, n)
             ELSE RagResult(TRUE, "rag enabled", [source |-> text, chunks |-> n], n)

is_ready == vectorstore # None

get_chunk_count == chunk_count

\* The strings retrieve_context returns: "" or the retrieved sections joined.
EmptyString == [kind |-> "empty"]
Sections(source, n) == [kind |-> "sections", source |-> source, count |-> n]

\* What vectorstore.similarity_search can do: return the nearest chunks, return no
\* document, or raise.
SearchOutcomes == {"docs", "no_docs", "raise"}

\* retrieve_context(query, k), lines 90-117.
retrieve_context(vs, query, k, search) ==
    IF vs = None THEN EmptyString
    ELSE IF search = "raise" THEN EmptyString                   \* except: return ""
    ELSE IF search = "no_docs" \/ Min(k, vs.chunks) = 0 THEN EmptyString
    ELSE Sections(vs.source, Min(k, vs.chunks))

Queries == {"photosynthesis", ""}
TopKs   == {0, 3, 8}

NoCall == [op |-> "none"]

RagInit ==
    /\ embeddings \in BOOLEAN        \* _initialize_embeddings succeeded or not
    /\ vectorstore = None
    /\ chunk_count = 0
    /\ last_call = NoCall
    /\ pre_call = NoCall

\* The effect of rag_system.process_pdf(text) on the RAGSystem.
CallProcessPdf(text, backend_ok) ==
    LET r == process_pdf(vectorstore, chunk_count, embeddings, text, backend_ok)
    IN  /\ vectorstore' = r.vectorstore
        /\ chunk_count' = r.chunk_count
        /\ last_call' = [op |-> "process_pdf", text |-> text,
                         success |-> r.success, message |-> r.message]
        /\ pre_call' = [vectorstore |-> vectorstore, chunk_count |-> chunk_count]
        /\ UNCHANGED embeddings

\* The effect of rag_system.reset().
CallReset ==
    /\ vectorstore' = None
    /\ chunk_count' = 0
    /\ last_call' = [op |-> "reset"]
    /\ pre_call' = [vectorstore |-> vectorstore, chunk_count |-> chunk_count]
    /\ UNCHANGED embeddings

\* RAGSystem called directly.
ApiProcessPdf ==
    /\ \E text \in Texts, backend_ok \in BOOLEAN : CallProcessPdf(text, backend_ok)
    /\ ragApiFrame

ApiReset ==
    /\ CallReset
    /\ ragApiFrame

ApiRetrieveContext ==
    /\ \E query \in Queries, k \in TopKs, search \in SearchOutcomes :
         last_call' = [op |-> "retrieve_context", query |-> query, k |-> k,
                       result |-> retrieve_context(vectorstore, query, k, search)]
    /\ pre_call' = [vectorstore |-> vectorstore, chunk_count |-> chunk_count]
    /\ UNCHANGED <<embeddings, vectorstore, chunk_count>>
    /\ ragApiFrame

RagApiNext == ApiProcessPdf \/ ApiReset \/ ApiRetrieveContext

(***************************************************************************)
(* components/pdf_handler.py, components/sidebar.py: the upload and reset  *)
(* handlers of one Streamlit session.  Every user action reruns main.py,   *)
(* which calls handle_pdf_upload with the file the uploader holds.         *)
(***************************************************************************)
Unreadable == [unreadable |-> TRUE]     \* PdfReader raises on this file

FileNames == {"a.pdf", "b.pdf"}
Files     == [name : FileNames, text : Texts \cup {Unreadable}]

SessionInit ==
    /\ uploaded_file = None
    /\ pdf_raw = Absent
    /\ last_upload_name = NoName
    /\ pdf_content = None
    /\ rag_enabled = FALSE

\* handle_pdf_upload, lines 13-52, run with the uploader holding file f and the
\* session keys raw / last_name (the values before the run).
handle_pdf_upload(f, raw, last_name, backend_ok) ==
    IF f = None \/ f.text = Unreadable
    THEN /\ pdf_raw' = raw
         /\ last_upload_name' = last_name
         /\ UNCHANGED <<pdf_content, rag_enabled, ragVars>>
    ELSE IF raw = Absent \/ last_name # f.name
    THEN /\ pdf_raw' = f.text
         /\ last_upload_name' = f.name
         /\ pdf_content' = f.text
         /\ IF f.text.strip_len >= MinTextLen
            THEN /\ CallProcessPdf(f.text, backend_ok)
                 /\ rag_enabled' = last_call'.success
            ELSE UNCHANGED <<rag_enabled, ragVars>>
    ELSE /\ pdf_raw' = raw
         /\ last_upload_name' = last_name
         /\ UNCHANGED <<pdf_content, rag_enabled, ragVars>>

\* The user puts a file into the uploader (or replaces the one it holds).
SelectFile ==
    \E f \in Files, backend_ok \in BOOLEAN :
        /\ uploaded_file' = f
        /\ handle_pdf_upload(f, pdf_raw, last_upload_name, backend_ok)
        /\ uploadFrame

\* The user removes the file from the uploader.
RemoveFile ==
    /\ uploaded_file # None
    /\ uploaded_file' = None
    /\ UNCHANGED <<pdf_raw, last_upload_name, pdf_content, rag_enabled, ragVars>>
    /\ uploadFrame

\* The Clear button (pdf_handler.py 107-112): drops the keys and reruns, so the
\* file the uploader still holds is handled as a new upload.
ClickClear ==
    /\ uploaded_file # None
    /\ uploaded_file.text # Unreadable
    /\ \E backend_ok \in BOOLEAN :
         handle_pdf_upload(uploaded_file, Absent, NoName, backend_ok)
    /\ UNCHANGED uploaded_file
    /\ uploadFrame

\* The Reset RAG System button (sidebar.py 69-76), offered while rag_enabled.
ClickResetRag ==
    /\ rag_enabled
    /\ CallReset
    /\ rag_enabled' = FALSE
    /\ pdf_content' = None
    /\ UNCHANGED <<uploaded_file, pdf_raw, last_upload_name>>
    /\ uploadFrame

UploadNext == SelectFile \/ RemoveFile \/ ClickClear \/ ClickResetRag

(***************************************************************************)
(* core/tools.py: ToolRegistry.suggest_tools                               *)
(*                                                                         *)
(* A request is a sequence of words; a keyword is a sequence of words.     *)
(* "keyword in request_lower" is substring search: the keyword's words     *)
(* occur next to each other in the lower-cased request, each inside a word *)
(* of the request.                                                         *)
(***************************************************************************)
explain_keywords   == << <<"explain">>, <<"what", "is">>, <<"how", "does">>,
                         <<"help", "me", "understand">>, <<"clarify">> >>
summarize_keywords == << <<"summarize">>, <<"summary">>, <<"tldr">>, <<"main", "points">>,
                         <<"key", "points">>, <<"condense">> >>
quiz_keywords      == << <<"quiz">>, <<"test">>, <<"practice">>, <<"questions">>, <<"mcq">>,
                         <<"exam", "prep">> >>
solve_keywords     == << <<"solve">>, <<"answer">>, <<"solution">>, <<"work", "out">>,
                         <<"calculate">> >>
evaluate_keywords  == << <<"check">>, <<"evaluate">>, <<"grade">>, <<"feedback">>,
                         <<"review", "my", "answer">> >>

\* str.lower() on the words of the model.
LowerWord(w) ==
    CASE w = "Quiz"    -> "quiz"
      [] w = "EXPLAIN" -> "explain"
      [] w = "Summary" -> "summary"
      [] OTHER         -> w

lower(request) == [i \in 1..Len(request) |-> LowerWord(request[i])]

\* Words of the model that hold another word as a substring.
Substrings == { <<"answers", "answer">>, <<"contest", "test">>, <<"quizzes", "quiz">> }

WordHas(w, k) == w = k \/ <<w, k>> \in Substrings

\* keyword in request_lower
KeywordIn(kw, req) ==
    \E i \in 1..(Len(req) - Len(kw) + 1) :
        \A j \in 1..Len(kw) : WordHas(req[i + j - 1], kw[j])

\* any(keyword in request_lower for keyword in keywords)
AnyKeyword(keywords, req) == \E n \in 1..Len(keywords) : KeywordIn(keywords[n], req)

\* self.tools[name].requires_pdf, as registered by _register_default_tools.
requires_pdf(name) == name = "content_summarizer"

RegisteredTools == <<"concept_explainer", "content_summarizer", "quiz_generator",
                     "question_solver", "answer_evaluator">>

RECURSIVE SelectSeq2(_, _)
\* [s for s in seq if keep[s]]
SelectSeq2(seq, keep) ==
    IF seq = <<>> THEN <<>>
    ELSE (IF Head(seq) \in keep THEN <<Head(seq)>> ELSE <<>>) \o SelectSeq2(Tail(seq), keep)

\* Mutant of keyword_suggestions: the five checks run in the opposite order.
keyword_suggestions_reversed(request_lower) ==
    LET matched ==
            (IF AnyKeyword(evaluate_keywords, request_lower)
             THEN <<"answer_evaluator">> ELSE <<>>)
            \o (IF AnyKeyword(solve_keywords, request_lower)
                THEN <<"question_solver">> ELSE <<>>)
            \o (IF AnyKeyword(quiz_keywords, request_lower)
                THEN <<"quiz_generator">> ELSE <<>>)
            \o (IF AnyKeyword(summarize_keywords, request_lower)
                THEN <<"content_summarizer">> ELSE <<>>)
            \o (IF AnyKeyword(explain_keywords, request_lower)
                THEN <<"concept_explainer">> ELSE <<>>)
    IN  IF matched = <<>> THEN <<"concept_explainer">> ELSE matched

\* suggest_tools, lines 146-163: the keyword checks and the default.
keyword_suggestions(request_lower) ==
    LET matched ==
            (IF AnyKeyword(explain_keywords, request_lower)
             THEN <<"concept_explainer">> ELSE <<>>)
            \o (IF AnyKeyword(summarize_keywords, request_lower)
                THEN <<"content_summarizer">> ELSE <<>>)
            \o (IF AnyKeyword(quiz_keywords, request_lower)
                THEN <<"quiz_generator">> ELSE <<>>)
            \o (IF AnyKeyword(solve_keywords, request_lower)
                THEN <<"question_solver">> ELSE <<>>)
            \o (IF AnyKeyword(evaluate_keywords, request_lower)
                THEN <<"answer_evaluator">> ELSE <<>>)
    IN  IF matched = <<>> THEN <<"concept_explainer">> ELSE matched

\* Mutant of document_filter: nothing is filtered.
document_filter_off(suggestions, has_pdf) == suggestions

\* suggest_tools, lines 166-167: the filter applied when no PDF is available.
document_filter(suggestions, has_pdf) ==
    LET eligible == { t \in {suggestions[i] : i \in 1..Len(suggestions)} :
                        ~requires_pdf(t) \/ t = "concept_explainer" }
    IN  IF ~has_pdf THEN SelectSeq2(suggestions, eligible) ELSE suggestions

suggest_tools(request, has_pdf) ==
    document_filter(keyword_suggestions(lower(request)), has_pdf)

MaxWords == 3       \* a request of the keyword model has 1..MaxWords words

Vocabulary == {"EXPLAIN", "Summary", "quiz", "contest", "answers", "check", "what", "is",
               "plants"}

\* Every request of at most MaxWords words of the vocabulary, in every order.
WordRequests == UNION { [1..n -> Vocabulary] : n \in 1..MaxWords }

\* ToolExecutor.__init__, lines 177-179.
ExecutorStart ==
    /\ execution_history = <<>>
    /\ executor_returns = <<>>

\* No call is being made.
ToolStart == suggest_call = [op |-> "none"] /\ ExecutorStart

\* A call suggest_tools(request, has_pdf) is about to be made, for any arguments.
ToolInit ==
    /\ suggest_call \in [op : {"call"}, request : WordRequests, has_pdf : BOOLEAN]
    /\ ExecutorStart

SuggestTools ==
    /\ suggest_call.op = "call"
    /\ suggest_call' = [op |-> "suggest_tools", request |-> suggest_call.request,
                        has_pdf |-> suggest_call.has_pdf,
                        result |-> suggest_tools(suggest_call.request,
                                                 suggest_call.has_pdf)]
    /\ UNCHANGED <<execution_history, executor_returns>>
    /\ toolFrame

ToolNext == SuggestTools

MaxExecutions == 4      \* number of ToolExecutor.execute calls in a behaviour

\* self.tools.get(name): the tool, or None.
get_tool(name) ==
    IF \E i \in 1..Len(RegisteredTools) : RegisteredTools[i] = name
    THEN [name |-> name]
    ELSE None

\* The names passed to execute: two registered tools and one that is not registered.
ExecutorToolNames == {"concept_explainer", "quiz_generator", "web_search"}

\* What tool.function(**kwargs) does: it returns a string of some length, or raises.
FunctionOutcomes ==
    { [kind |-> "returns", length |-> 0], [kind |-> "returns", length |-> 1200],
      [kind |-> "raises", error |-> "missing argument"] }

\* ToolExecutor.execute, lines 181-232: the history after the call and the dict
\* returned.
executor_execute(history, tool_name, outcome) ==
    IF get_tool(tool_name) = None
    THEN [history |-> history,
          returned |-> [success |-> FALSE, error |-> "not found", tool |-> NoName]]
    ELSE IF outcome.kind = "returns"
    THEN [history |-> Append(history, [tool |-> tool_name, success |-> TRUE,
                                       result_length |-> outcome.length]),
          returned |-> [success |-> TRUE, error |-> "", tool |-> tool_name]]
    ELSE [history |-> Append(history, [tool |-> tool_name, success |-> FALSE,
                                       error |-> outcome.error]),
          returned |-> [success |-> FALSE, error |-> outcome.error, tool |-> tool_name]]

\* get_execution_summary, lines 234-245 (without success_rate and the history).
get_execution_summary(history) ==
    LET total == Len(history)
        successful == Cardinality({ i \in 1..Len(history) : history[i].success })
    IN  [total_executions |-> total, successful |-> successful,
         failed |-> total - successful]

\* A call tool_executor.execute(tool_name, ...).
ExecutorExecute ==
    /\ Len(executor_returns) < MaxExecutions
    /\ \E tool_name \in ExecutorToolNames, outcome \in FunctionOutcomes :
         LET r == executor_execute(execution_history, tool_name, outcome)
         IN  /\ execution_history' = r.history
             /\ executor_returns' = Append(executor_returns, r.returned)
    /\ UNCHANGED suggest_call
    /\ toolFrame

ExecutorNext == ExecutorExecute

(***************************************************************************)
(* The language model's reply to a planning prompt, after the code has cut *)
(* a fenced block out of it:                                               *)
(*   kind "text"        json.loads raises                                  *)
(*   kind "json_other"  valid JSON that is not an object (a list, a number)*)
(*   kind "json"        a JSON object; has_steps: it has the step-list key *)
(*                      the caller reads ("execution_plan" / "steps")      *)
(***************************************************************************)
NoTool == "<no tool key>"       \* a step object without the "tool" key

PlanStep(step, action, tool, dependencies) ==
    [step |-> step, action |-> action, tool |-> tool, dependencies |-> dependencies]

StepExplain == PlanStep(1, "explain the topic", "concept_explainer", <<>>)
StepQuiz    == PlanStep(2, "make a quiz", "quiz_generator", <<3>>)
StepSearch  == PlanStep(1, "search the web", "web_search", <<2>>)
StepNoTool  == PlanStep(3, "wrap up", NoTool, <<>>)

\* The step lists a reply may hold: empty, one step, several steps whose numbers and
\* dependencies do not follow the list order, a repeated step, an unknown tool.
StepLists ==
    { <<>>, <<StepExplain>>, <<StepSearch>>, <<StepQuiz, StepExplain>>,
      <<StepExplain, StepExplain>>, <<StepQuiz, StepNoTool, StepExplain>> }

SuggestionLists == { <<>>, <<"try a quiz">>, <<"review notes", "try a quiz">> }

JsonPlan(has_steps, steps, suggestions) ==
    [kind |-> "json", has_steps |-> has_steps, steps |-> steps,
     proactive_suggestions |-> suggestions, complexity |-> "moderate", fallback |-> FALSE]

TextReply      == [kind |-> "text"]
JsonOtherReply == [kind |-> "json_other"]

Replies ==
    {TextReply, JsonOtherReply}
    \cup { JsonPlan(FALSE, <<>>, sg) : sg \in SuggestionLists }
    \cup { JsonPlan(TRUE, st, sg) : st \in StepLists, sg \in SuggestionLists }

\* The requests of the model.
Requests == { <<"EXPLAIN", "photosynthesis">>, <<"Quiz", "me", "on", "answers">>,
              <<"summarize", "this">> }

(***************************************************************************)
(* utils/groq_helper.py, utils/gemini_helper.py: generate_response         *)
(*                                                                         *)
(* The module globals are set once, at import time.  A call returns a      *)
(* string: the generated text, the empty string, a notice, or an error     *)
(* string that names what failed.                                          *)
(***************************************************************************)
\* groq_helper after import, lines 8-30: the key is set and the client was built; the
\* key is missing; the groq package is missing or the client could not be built.
\* generator is assigned None on line 15 and nowhere else.
GroqConfigs ==
    { [api_configured |-> TRUE,  use_groq |-> TRUE,  groq_client |-> TRUE,  generator |-> FALSE],
      [api_configured |-> FALSE, use_groq |-> TRUE,  groq_client |-> FALSE, generator |-> FALSE],
      [api_configured |-> FALSE, use_groq |-> FALSE, groq_client |-> FALSE, generator |-> FALSE] }

\* gemini_helper after import, lines 16-33: the pipeline was loaded or loading raised.
GeminiConfigs ==
    { [api_configured |-> TRUE, generator |-> TRUE],
      [api_configured |-> FALSE, generator |-> FALSE] }

\* What the backend call can do: give text, give the empty text, give an answer
\* without content (None), give an answer without choices, or throw.
BackendOutcomes == {"content", "empty", "none", "no_choices", "throws"}

PromptKinds == {"plan", "synthesis", "explain", "summarize", "quiz", "solve", "evaluate"}
Prompts     == [kind : PromptKinds, len : {0, 400, 20000}]

GeneratedText(prompt)  == [kind |-> "text", to |-> prompt]
EmptyOutput            == [kind |-> "empty"]
Notice(text)           == [kind |-> "notice", text |-> text]
ErrorString(text, why) == [kind |-> "error_string", text |-> text, error |-> why]
LlmRaised(why)         == [kind |-> "raised", error |-> why]

\* Mutant of groq_generate_response: the API call is not wrapped in try/except.
groq_generate_response_no_try(cfg, prompt, outcome) ==
    IF ~cfg.api_configured THEN ErrorString("No LLM configured", "not configured")
    ELSE IF cfg.use_groq /\ cfg.groq_client
    THEN CASE outcome = "content" -> GeneratedText(prompt)
           [] outcome = "empty"   -> EmptyOutput
           [] OTHER               -> LlmRaised(outcome)
    ELSE ErrorString("No LLM available", "no backend")

\* groq_helper.generate_response, lines 33-105.  An answer without content makes
\* len(response) raise inside the try block.
groq_generate_response(cfg, prompt, outcome) ==
    IF ~cfg.api_configured THEN ErrorString("No LLM configured", "not configured")
    ELSE IF cfg.use_groq /\ cfg.groq_client
    THEN CASE outcome = "content" -> GeneratedText(prompt)
           [] outcome = "empty"   -> EmptyOutput
           [] OTHER               -> ErrorString("Groq API error", outcome)
    ELSE IF cfg.generator
    THEN CASE outcome = "content" -> GeneratedText(prompt)
           [] outcome = "empty"   -> Notice("No response generated.")
           [] OTHER               -> ErrorString("Error generating response", outcome)
    ELSE ErrorString("No LLM available", "no backend")

\* gemini_helper.generate_response, lines 35-72.
gemini_generate_response(cfg, prompt, outcome) ==
    IF ~cfg.api_configured \/ ~cfg.generator
    THEN ErrorString("Local LLM not loaded", "not configured")
    ELSE CASE outcome = "content" -> GeneratedText(prompt)
           [] outcome = "empty"   -> Notice("No response generated.")
           [] OTHER               -> ErrorString("Error generating response", outcome)

\* The modules after import, in any of the ways the imports can end.
LlmInit ==
    /\ llm_config \in [groq : GroqConfigs, gemini : GeminiConfigs]
    /\ llm_call = [op |-> "none"]

\* The modules after import in a working installation.
LlmStart ==
    /\ llm_config = [groq |-> [api_configured |-> TRUE, use_groq |-> TRUE,
                               groq_client |-> TRUE, generator |-> FALSE],
                     gemini |-> [api_configured |-> TRUE, generator |-> TRUE]]
    /\ llm_call = [op |-> "none"]

GroqGenerateResponse ==
    /\ \E prompt \in Prompts, outcome \in BackendOutcomes :
         llm_call' = [op |-> "generate_response", module |-> "groq_helper",
                      prompt |-> prompt, outcome |-> outcome,
                      result |-> groq_generate_response(llm_config.groq, prompt, outcome)]
    /\ UNCHANGED llm_config
    /\ llmFrame

GeminiGenerateResponse ==
    /\ \E prompt \in Prompts, outcome \in BackendOutcomes :
         llm_call' = [op |-> "generate_response", module |-> "gemini_helper",
                      prompt |-> prompt, outcome |-> outcome,
                      result |-> gemini_generate_response(llm_config.gemini, prompt, outcome)]
    /\ UNCHANGED llm_config
    /\ llmFrame

LlmNext == GroqGenerateResponse \/ GeminiGenerateResponse

(***************************************************************************)
(* core/planner.py: AgentPlanner.create_plan                               *)
(***************************************************************************)
MaxPlans == 2       \* number of create_plan calls in a behaviour

\* _create_fallback_plan
create_fallback_plan(request, has_pdf) ==
    LET suggested_tools == suggest_tools(request, has_pdf)
        primary_tool == IF suggested_tools # <<>> THEN suggested_tools[1]
                        ELSE "concept_explainer"
    IN  [kind |-> "json", has_steps |-> TRUE,
         steps |-> << PlanStep(1, "Respond to user request", primary_tool, <<>>) >>,
         proactive_suggestions |-> << "Would you like a quiz on this topic?" >>,
         complexity |-> "simple", fallback |-> TRUE]

\* A step object create_plan can turn into a PlanStep: s["step"], s["action"], s["tool"].
StepHasKeys(s) == s.tool # NoTool

\* create_plan, lines 148-186: the plan returned for a reply.
create_plan(request, has_pdf, reply) ==
    IF reply.kind # "json" THEN create_fallback_plan(request, has_pdf)
    ELSE LET steps == IF reply.has_steps THEN reply.steps ELSE <<>>
         IN  IF \E i \in 1..Len(steps) : ~StepHasKeys(steps[i])
             THEN create_fallback_plan(request, has_pdf)
             ELSE [reply EXCEPT !.steps = steps, !.has_steps = TRUE]

PlannerInit ==
    /\ planning_history = <<>>
    /\ planner_call = [op |-> "none", calls |-> 0]

CreatePlan ==
    /\ planner_call.calls < MaxPlans
    /\ \E request \in Requests, has_pdf \in BOOLEAN, reply \in Replies :
         LET p == create_plan(request, has_pdf, reply)
         IN  /\ planner_call' =
                    [op |-> "create_plan", request |-> request, has_pdf |-> has_pdf,
                     reply |-> reply, plan |-> p,
                     calls |-> planner_call.calls + 1]
             /\ planning_history' = IF p.fallback THEN planning_history
                                    ELSE Append(planning_history, p)
    /\ plannerFrame

PlannerNext == CreatePlan

(***************************************************************************)
(* core/agent.py: StudyBuddyAgent                                          *)
(***************************************************************************)
MaxRequests == 2        \* number of execute() calls in a behaviour

\* think, lines 104-112: the plan returned when the reply cannot be parsed.
think_fallback(request) ==
    [kind |-> "json", has_steps |-> TRUE,
     steps |-> << PlanStep(1, "Respond to user", "concept_explainer", <<>>) >>,
     proactive_suggestions |-> <<>>, complexity |-> "simple", fallback |-> TRUE]

\* think, lines 91-112: the value returned for a reply.
think(request, reply) ==
    IF reply.kind = "text" THEN think_fallback(request) ELSE reply

\* plan.get("execution_plan", [])
execution_plan(p) == IF p.has_steps THEN p.steps ELSE <<>>

\* The position of steps[i] when the steps are sorted by step number (stable).
StepRank(steps, i) ==
    Cardinality({ j \in 1..Len(steps) :
                    \/ steps[j].step < steps[i].step
                    \/ (steps[j].step = steps[i].step /\ j <= i) })

\* Mutant of next_step: the loop runs the steps in the order of their step numbers.
next_step_by_number(p, done) ==
    LET steps == execution_plan(p)
    IN  steps[CHOOSE i \in 1..Len(steps) : StepRank(steps, i) = done + 1]

\* The step the for loop of execute (line 130) takes after `done` iterations.
next_step(p, done) == execution_plan(p)[done + 1]

\* Mutant of record_tool: only a tool that returned its text is recorded.
record_tool_on_success(used, tool_name, outcome) ==
    IF outcome = "text" THEN Append(used, tool_name) ELSE used

\* self.tools_used.append(tool_name), line 142, reached when _execute_tool returned.
record_tool(used, tool_name, outcome) == Append(used, tool_name)

\* The names _execute_tool dispatches on (lines 179-204).
AgentTools == {"concept_explainer", "content_summarizer", "quiz_generator",
               "question_solver", "answer_evaluator", "pdf_retriever"}

\* What a call of _execute_tool can do: return the tool's text, return the tool's
\* error string, return the not-found message, or raise.
ToolOutcomes(tool) ==
    IF tool \in AgentTools THEN {"text", "error", "raise"} ELSE {"not_found", "raise"}

ToolResult(tool, outcome) == [tool |-> tool, kind |-> outcome]

\* The suggestion block appended by _synthesize_response, lines 248-252.
SuggestionBlock(suggestions) ==
    IF suggestions = <<>> THEN <<>>
    ELSE << "I can also help you with:" >>
         \o [i \in 1..Len(suggestions) |-> [bullet |-> suggestions[i]]]

\* generate_response(synthesis_prompt): the reply to a prompt holding the request and
\* the results.
SynthesisReply(request, step_results, llm_ok) ==
    [kind |-> IF llm_ok THEN "synthesis" ELSE "llm_error",
     request |-> request, results |-> step_results]

\* Mutant of NeedsSynthesis: the single-step shortcut is missing.
NeedsSynthesis_always(step_results) == Len(step_results) >= 0

\* Whether _synthesize_response calls the language model (line 221).
NeedsSynthesis(step_results) == Len(step_results) # 1

\* Mutant of synthesize_response: the suggestions are appended on the multi-step path only.
synthesize_response_multi_only(request, step_results, p, llm_ok) ==
    IF ~NeedsSynthesis(step_results) THEN << step_results[1].result >>
    ELSE << SynthesisReply(request, step_results, llm_ok) >>
         \o SuggestionBlock(p.proactive_suggestions)

\* _synthesize_response: the reply as the list of its parts, in order.
synthesize_response(request, step_results, p, llm_ok) ==
    LET response == IF ~NeedsSynthesis(step_results) THEN step_results[1].result
                    ELSE SynthesisReply(request, step_results, llm_ok)
    IN  << response >> \o SuggestionBlock(p.proactive_suggestions)

NoPlan == [kind |-> "none"]

AgentInit ==
    /\ tools_used = <<>>
    /\ current_plan = NoPlan
    /\ pc = "idle"
    /\ user_request = <<>>
    /\ plan = NoPlan
    /\ step_index = 0
    /\ results = <<>>
    /\ final_response = <<>>
    /\ llm_calls = <<>>
    /\ invoked = <<>>
    /\ tools_at_start = 0
    /\ requests_made = 0
    /\ exception = None

\* An exception: str(e) is its text.
Raised(type, text) == [type |-> type, text |-> text]

\* execute(request) is called and the model answers the planning prompt with reply:
\* line 126, plan = self.think(...).  A reply that is valid JSON but no object makes
\* plan.get raise on line 130.
ThinkOn(request, reply) ==
    /\ LET p == think(request, reply)
       IN  /\ user_request' = request
           /\ plan' = p
           /\ current_plan' = IF reply.kind = "text" THEN current_plan ELSE p
           /\ pc' = IF p.kind = "json" THEN "exec" ELSE "raised"
           /\ exception' = IF p.kind = "json" THEN None
                           ELSE Raised("AttributeError", <<"no attribute", "get">>)
    /\ llm_calls' = << "plan" >>
    /\ step_index' = 0
    /\ results' = <<>>
    /\ invoked' = <<>>
    /\ tools_at_start' = Len(tools_used)
    /\ final_response' = <<>>
    /\ requests_made' = requests_made + 1
    /\ UNCHANGED tools_used

\* execute() called directly, for any request and any reply.
Think ==
    /\ pc \in {"idle", "done", "raised"}
    /\ requests_made < MaxRequests
    /\ \E request \in Requests, reply \in Replies : ThinkOn(request, reply)
    /\ agentFrame

\* Mutant of next_index: a step whose tool returned an error string is run again.
next_index_retry(done, outcome) == IF outcome = "error" THEN done ELSE done + 1

\* The for loop of execute, line 130: after a step whose tool returned, whatever it
\* returned, the loop goes on to the next step of the plan.
next_index(done, outcome) == done + 1

\* One iteration of the for loop, lines 130-142.
ExecuteStep ==
    /\ pc = "exec"
    /\ step_index < Len(execution_plan(plan))
    /\ LET step == next_step(plan, step_index)
           tool_name == step.tool
       IN  /\ invoked' = Append(invoked, tool_name)
           /\ \E outcome \in ToolOutcomes(tool_name) :
                IF outcome = "raise"
                THEN /\ pc' = "raised"
                     /\ exception' = Raised("Exception", <<"raised in", tool_name>>)
                     /\ UNCHANGED <<results, tools_used, step_index>>
                ELSE /\ results' = Append(results,
                                      [step |-> step.step, action |-> step.action,
                                       tool |-> tool_name,
                                       result |-> ToolResult(tool_name, outcome)])
                     /\ tools_used' = record_tool(tools_used, tool_name, outcome)
                     /\ step_index' = next_index(step_index, outcome)
                     /\ UNCHANGED <<pc, exception>>
    /\ UNCHANGED <<current_plan, user_request, plan, final_response, llm_calls,
                   tools_at_start, requests_made>>
    /\ agentFrame

\* After the loop: lines 145-153.
Synthesize ==
    /\ pc = "exec"
    /\ step_index = Len(execution_plan(plan))
    /\ \E llm_ok \in (IF NeedsSynthesis(results) THEN BOOLEAN ELSE {TRUE}) :
         final_response' = synthesize_response(user_request, results, plan, llm_ok)
    /\ llm_calls' = IF NeedsSynthesis(results) THEN Append(llm_calls, "synthesis")
                    ELSE llm_calls
    /\ pc' = "done"
    /\ UNCHANGED <<tools_used, current_plan, user_request, plan, step_index, results,
                   invoked, tools_at_start, requests_made, exception>>
    /\ agentFrame

AgentNext == Think \/ ExecuteStep \/ Synthesize

(***************************************************************************)
(* components/chat_ui.py: one chat session with the agentic mode on.       *)
(* A submitted message runs chat_ui (lines 77-190), which calls            *)
(* use_agentic_mode (lines 15-58), which calls agent.execute; the steps of *)
(* execute are the agent's actions above.                                  *)
(***************************************************************************)
ChatRequests == { <<"EXPLAIN", "photosynthesis">> }

ChatReplies ==
    { TextReply, JsonOtherReply,
      JsonPlan(TRUE, <<StepExplain>>, <<>>),
      JsonPlan(TRUE, <<StepQuiz, StepNoTool, StepExplain>>, <<"try a quiz">>) }

UserMessage(content)      == [role |-> "user", content |-> content]
AssistantMessage(content) == [role |-> "assistant", content |-> content]

\* Mutant of error_message: the apology without the error text.
error_message_generic(e) == [kind |-> "error_message", error |-> <<>>]

\* chat_ui, lines 170-175: the apology followed by f"Error: {str(e)}".
error_message(e) == [kind |-> "error_message", error |-> e.text]

\* get_thinking_trace, lines 316-326, on self.current_plan: the trace lines, or the
\* exception raised by .get on a plan that is no dict, or by step['tool'] on a step
\* without that key.
get_thinking_trace(cp) ==
    IF cp = NoPlan THEN [kind |-> "trace", steps |-> <<>>]
    ELSE IF cp.kind = "json_other"
    THEN [kind |-> "raised", exception |-> Raised("AttributeError", <<"no attribute", "get">>)]
    ELSE IF \E i \in 1..Len(execution_plan(cp)) : execution_plan(cp)[i].tool = NoTool
    THEN [kind |-> "raised", exception |-> Raised("KeyError", <<"tool">>)]
    ELSE [kind |-> "trace", steps |-> execution_plan(cp)]

\* The reply as the string passed to remember_interaction; every part of a reply is
\* taken to be 300 characters long.
ReplyText(parts) == Str(parts, 300 * Len(parts))

ChatStart ==
    /\ messages = <<>>
    /\ show_thinking = TRUE
    /\ turn_tools = <<>>

\* chat_ui lines 77-94 and use_agentic_mode lines 17-35 (or 47): the user message is
\* appended and agent.execute is called.  The Show Thinking toggle of the sidebar is
\* read in the same run.
ChatPrompt ==
    /\ pc = "idle"
    /\ requests_made < MaxRequests
    /\ \E request \in ChatRequests, reply \in ChatReplies :
         /\ messages' = Append(messages, UserMessage(request))
         /\ ThinkOn(request, reply)
    /\ show_thinking' \in BOOLEAN
    /\ UNCHANGED <<memVars, turn_tools>>
    /\ chatFrame

\* execute returned: use_agentic_mode lines 38-58 and chat_ui lines 176-190.
ChatFinish ==
    /\ pc = "done"
    /\ pc' = "idle"
    /\ LET trace == get_thinking_trace(current_plan)
       IN  IF show_thinking /\ trace.kind = "raised"
           THEN /\ exception' = trace.exception
                /\ messages' = Append(messages,
                                      AssistantMessage(error_message(trace.exception)))
                /\ UNCHANGED <<memVars, turn_tools>>
           ELSE /\ CallAddTurn([user_input |-> user_request,
                                agent_response |-> ReplyText(final_response),
                                tools_used |-> AgentToolsList,
                                plan_complexity |-> plan.complexity], clock + 1)
                /\ clock' = clock + 1
                /\ turn_tools' = Append(turn_tools, invoked)
                /\ messages' = Append(messages, AssistantMessage(final_response))
                /\ UNCHANGED <<max_turns, study_sessions, exception>>
    /\ UNCHANGED <<tools_used, current_plan, user_request, plan, step_index, results,
                   final_response, llm_calls, invoked, tools_at_start, requests_made,
                   show_thinking>>
    /\ chatFrame

\* execute raised: chat_ui lines 170-190.
ChatError ==
    /\ pc = "raised"
    /\ pc' = "idle"
    /\ messages' = Append(messages, AssistantMessage(error_message(exception)))
    /\ UNCHANGED <<tools_used, current_plan, user_request, plan, step_index, results,
                   final_response, llm_calls, invoked, tools_at_start, requests_made,
                   exception, show_thinking, turn_tools, memVars>>
    /\ chatFrame

\* The New Chat button, sidebar.py lines 84-88.
NewChat ==
    /\ pc = "idle"
    /\ Len(study_sessions) < MaxSessions
    /\ messages' = <<>>
    /\ CallStartNewSession
    /\ turn_tools' = <<>>
    /\ UNCHANGED <<max_turns, clock, show_thinking, agentVars>>
    /\ chatFrame

ChatNext == ChatPrompt \/ ExecuteStep \/ Synthesize \/ ChatFinish \/ ChatError \/ NewChat

(***************************************************************************)
(* core/summarizer.py: summarize_text, and its three callers in one        *)
(* session: the Summarizer mode of the chat (chat_ui.py 103-135), the      *)
(* Summarize button of the upload panel (pdf_handler.py 88-105, main.py    *)
(* 56-81) and the agent's content_summarizer tool (agent.py 171-189).      *)
(***************************************************************************)
MaxSummaries == 1   \* number of summaries added to the chat log in a behaviour

PreviewLen    == 3000   \* pdf_text[:3000], raw[:3000]
DirectBudget  == 8000   \* content_to_summarize[:8000], self.pdf_content[:8000]

TooShortMessage  == [kind |-> "too_short"]
GeneratedSummary == [kind |-> "summary"]      \* what generate_response returned

\* text[:n] and text.strip() on a document text.
TextCut(text, n) == Text(text.body, Min(text.len, n), Min(text.strip_len, n))
Stripped(text)   == Text(text.body, text.strip_len, text.strip_len)

\* The retrieved sections as a text: chunks of a document that was indexed.
SectionsText(sec) ==
    LET n == Min(sec.source.strip_len, sec.count * ChunkSize)
    IN  [body |-> sec.source.body, len |-> n, strip_len |-> n, part |-> "sections"]

\* The messages typed into the chat, and the focus typed into the upload panel.
SummaryPrompts == { Text("why?", 4, 4), Text("a pasted paragraph", 80, 80) }
Focuses        == { Text("", 0, 0), Text("focus on applications", 21, 21) }
EditedTexts    == { Text("edited short", 20, 20), Text("edited long", 400, 400) }

\* summarize_text, lines 21-75: the value returned, whether generate_response was
\* called, and the content its prompt was built from.  vs is the retriever's index,
\* search what a retrieval would do.
summarize_text(text, instruction, vs, search) ==
    IF text = None THEN [result |-> TooShortMessage, llm_called |-> FALSE, content |-> None]
    ELSE IF text.len = 0 \/ text.strip_len < MinTextLen
    THEN [result |-> TooShortMessage, llm_called |-> FALSE, content |-> None]
    ELSE LET k == IF instruction.strip_len > 0 THEN 4 ELSE 8
             retrieved == retrieve_context(vs, instruction, k, search)
             content == IF vs # None /\ retrieved # EmptyString
                        THEN SectionsText(retrieved)
                        ELSE IF vs # None THEN text
                        ELSE TextCut(text, DirectBudget)
         IN  [result |-> GeneratedSummary, llm_called |-> TRUE, content |-> content]

SummaryStart ==
    /\ user_focus = Text("", 0, 0)
    /\ summary_call = [op |-> "none"]

\* A summarize_text call as it is kept in summary_call: who called, the document the
\* session held, what came back and whether the LLM was asked.
SummaryCall(caller, document, r) ==
    [op |-> "summarize_text", caller |-> caller, document |-> document,
     result |-> r.result, llm_called |-> r.llm_called]

\* A message sent in Summarizer mode with the agentic mode off: chat_ui lines 77-190.
ChatSummarizerMode ==
    /\ Len(messages) < 2 * MaxSummaries
    /\ \E p \in SummaryPrompts, search \in SearchOutcomes :
         LET pdf == pdf_content
             has_pdf == IF pdf = None THEN FALSE ELSE pdf.len > 0      \* if pdf:
             \* is_followup: both prompts have at most 12 words
             extra == [body |-> p.body, len |-> 90, strip_len |-> 90,
                       part |-> "follow-up question"]
             r == IF has_pdf THEN summarize_text(pdf, extra, vectorstore, search)
                  ELSE summarize_text(Stripped(p), Text("", 0, 0), vectorstore, search)
         IN  /\ summary_call' = SummaryCall("chat_ui", pdf, r)
             /\ messages' = messages \o << UserMessage(p), AssistantMessage(r.result) >>
    /\ UNCHANGED <<user_focus, show_thinking, turn_tools, sessionVars, ragVars>>
    /\ UNCHANGED <<memVars, agentVars, plannerVars, otherVars>>

\* The texts the Summarize button can submit, pdf_handler.py lines 90-99: the text
\* area holds the untouched preview, was emptied, or was rewritten.  The stripped
\* preview of a long text with blank ends may differ from the preview of the
\* stripped text, and is then submitted itself.
TextsToSummarize(raw) ==
    { Stripped(raw) }
    \cup (IF raw.len > PreviewLen /\ raw.len # raw.strip_len
          THEN { [body |-> raw.body, len |-> PreviewLen - 1,
                  strip_len |-> PreviewLen - 1, part |-> "preview"] }
          ELSE {})
    \cup EditedTexts

\* The Summarize button: a rerun of main.py in which handle_pdf_upload finds the file
\* it already holds, lines 88-105, then main.py lines 56-81.
ClickSummarize ==
    /\ Len(messages) < 2 * MaxSummaries
    /\ uploaded_file # None
    /\ uploaded_file.text # Unreadable
    /\ pdf_raw # Absent
    /\ last_upload_name = uploaded_file.name
    /\ \E text \in TextsToSummarize(pdf_raw), focus \in Focuses, search \in SearchOutcomes :
         IF text.len >= MinTextLen
         THEN LET r == summarize_text(text, focus, vectorstore, search)
              IN  /\ pdf_content' = text
                  /\ user_focus' = focus
                  /\ summary_call' = SummaryCall("main", text, r)
                  /\ messages' = messages \o << UserMessage([kind |-> "summarize with focus",
                                                              focus |-> focus]),
                                                 AssistantMessage(r.result) >>
         ELSE UNCHANGED <<pdf_content, user_focus, summary_call, messages>>
    /\ UNCHANGED <<uploaded_file, pdf_raw, last_upload_name, rag_enabled, ragVars>>
    /\ UNCHANGED <<show_thinking, turn_tools>>
    /\ UNCHANGED <<memVars, agentVars, plannerVars, otherVars>>

\* _execute_tool("content_summarizer", user_input, context), lines 171-189, for a
\* request submitted in the session's current state: use_agentic_mode has just set
\* agent.pdf_content and agent.rag_system from the session (chat_ui.py lines 25-26).
AgentSummarizerTool ==
    /\ \E user_input \in SummaryPrompts, search \in SearchOutcomes :
         LET agent_pdf == pdf_content
             retrieved == retrieve_context(vectorstore, user_input, 3, search)
             pdf_context ==
                 IF vectorstore # None
                 THEN (IF retrieved = EmptyString THEN None ELSE SectionsText(retrieved))
                 ELSE IF agent_pdf = None THEN None
                 ELSE IF agent_pdf.len = 0 THEN None
                 ELSE TextCut(agent_pdf, DirectBudget)
             text == IF pdf_context = None THEN user_input ELSE pdf_context
             r == summarize_text(text, user_input, vectorstore, search)
         IN  summary_call' = SummaryCall("agent", agent_pdf, r)
    /\ UNCHANGED <<user_focus, chatVars, sessionVars, ragVars>>
    /\ UNCHANGED <<memVars, agentVars, plannerVars, otherVars>>

\* explain_concept, lines 15-22: the document part of the prompt, and whether
\* retrieve_context was called for it.
explain_context(vs, pdf, concept, search) ==
    IF vs # None
    THEN [context |-> retrieve_context(vs, concept, 3, search), retrieval |-> TRUE]
    ELSE IF pdf = None THEN [context |-> EmptyString, retrieval |-> FALSE]
    ELSE IF pdf.len = 0 THEN [context |-> EmptyString, retrieval |-> FALSE]
    ELSE [context |-> TextCut(pdf, DirectBudget), retrieval |-> FALSE]

\* _execute_tool, lines 171-176: pdf_context, and whether retrieve_context was
\* called for it.
tool_pdf_context(vs, pdf, user_input, search) ==
    IF vs # None
    THEN [context |-> retrieve_context(vs, user_input, 3, search), retrieval |-> TRUE]
    ELSE IF pdf = None THEN [context |-> EmptyString, retrieval |-> FALSE]
    ELSE IF pdf.len = 0 THEN [context |-> EmptyString, retrieval |-> FALSE]
    ELSE [context |-> TextCut(pdf, DirectBudget), retrieval |-> FALSE]

\* A document-context computation as it is kept in summary_call: the operation, the
\* text of the upload the session holds (pdf_raw), and what was computed.
ContextCall(op, r) ==
    [op |-> op, uploaded |-> pdf_raw, context |-> r.context, retrieval |-> r.retrieval]

\* A message sent in Explainer mode with the agentic mode off: chat_ui.py lines
\* 95-101 and explain_concept lines 15-22.
ExplainerMode ==
    /\ \E concept \in Queries, search \in SearchOutcomes :
         summary_call' = ContextCall("explain_concept",
                             explain_context(vectorstore, pdf_content, concept, search))
    /\ UNCHANGED <<user_focus, chatVars, sessionVars, ragVars>>
    /\ UNCHANGED <<memVars, agentVars, plannerVars, otherVars>>

\* _execute_tool lines 171-176 for a request submitted in the session's current
\* state, agent.pdf_content and agent.rag_system just set by use_agentic_mode
\* (chat_ui.py lines 25-26).
AgentToolContext ==
    /\ \E user_input \in Queries, search \in SearchOutcomes :
         summary_call' = ContextCall("_execute_tool",
                             tool_pdf_context(vectorstore, pdf_content, user_input, search))
    /\ UNCHANGED <<user_focus, chatVars, sessionVars, ragVars>>
    /\ UNCHANGED <<memVars, agentVars, plannerVars, otherVars>>

FallbackNext ==
    UploadNext \/ ClickSummarize \/ ExplainerMode \/ AgentToolContext

SummarizeNext ==
    UploadNext \/ ChatSummarizerMode \/ ClickSummarize \/ AgentSummarizerTool

(***************************************************************************)
(* Specifications                                                          *)
(***************************************************************************)
\* Everything but the memory and the language-model client, just constructed.
RestInit ==
    /\ RagInit /\ SessionInit /\ AgentInit /\ PlannerInit
    /\ ChatStart /\ SummaryStart

Init == MemInit /\ RestInit /\ ToolStart /\ LlmStart

\* The application: main.py builds a MemoryManager.
AppInit == ManagerInit /\ RestInit /\ ToolStart /\ LlmStart

\* The registry and the language-model client on their own, with any arguments and
\* any outcome of the imports.
ToolsInit == ManagerInit /\ RestInit /\ ToolInit /\ LlmStart
ClientInit == ManagerInit /\ RestInit /\ ToolStart /\ LlmInit

SpecMemory    == Init /\ [][MemNext]_vars
SpecUpload    == Init /\ [][UploadNext]_vars
SpecRagApi    == Init /\ [][RagApiNext]_vars
SpecAgent     == Init /\ [][AgentNext]_vars
SpecPlanner   == Init /\ [][PlannerNext]_vars
\* execute() runs to its end once called: nothing outside the call can stop the loop
\* between two steps or before synthesis.
SpecAgentLive == Init /\ [][AgentNext]_vars
                 /\ WF_vars(ExecuteStep) /\ WF_vars(Synthesize)
SpecChat      == AppInit /\ [][ChatNext]_vars
SpecTools     == ToolsInit /\ [][ToolNext]_vars
SpecSession   == AppInit /\ [][SessionNext]_vars
SpecSummarize == AppInit /\ [][SummarizeNext]_vars
SpecLlm       == ClientInit /\ [][LlmNext]_vars
SpecFallback  == AppInit /\ [][FallbackNext]_vars
SpecExecutor  == AppInit /\ [][ExecutorNext]_vars

Next == MemNext \/ UploadNext \/ AgentNext \/ PlannerNext
Spec == Init /\ [][Next]_vars

(***************************************************************************)
(* Properties                                                              *)
(***************************************************************************)
\* C1 (SpecMemory): ShortTermMemory keeps a FIFO window.  After any sequence of
\* add_turn and clear calls the turn log is exactly the last min(k, max_turns) of the
\* k turns added since the last clear, in insertion order; it never holds more than
\* max_turns turns, and once max_turns + 1 turns were added the first one is absent.
C1_FifoWindow ==
    LET k == Len(added)
        n == Min(k, max_turns)
    IN  /\ Len(conversation) = n
        /\ \A i \in 1..n : conversation[i] = added[k - n + i]
        /\ Len(conversation) <= max_turns
        /\ k >= max_turns + 1 => added[1] \notin Range(conversation)

\* C1 witness: after a clear, max_turns + 1 turns were added to a window of 2, so the
\* first of them was evicted.
C1_Witness ==
    /\ max_turns = 2
    /\ Len(added) = max_turns + 1
    /\ clock > Len(added)
    /\ Len(conversation) = 2

\* C2 (SpecUpload), the claim as stated: whenever the retriever is ready, its index
\* was built from the text held as the session's current pdf_content.
C2_IndexIsCurrentUpload ==
    is_ready => vectorstore.source = pdf_content

\* C3 (SpecAgent), the claim as stated: every plan think returns for a request is a
\* plan with at least one step, whatever the language model replied.
C3_PlanHasStep ==
    (requests_made > 0 /\ plan.kind = "json") => Len(execution_plan(plan)) >= 1

\* C3, the same statement for AgentPlanner.create_plan (SpecPlanner).
C3_PlannerPlanHasStep ==
    planner_call.op = "create_plan" => Len(planner_call.plan.steps) >= 1

\* The tool the claim C4 names: the first tool suggest_tools returns for the request
\* (the explain tool when it returns none).
FirstSuggested(request, has_pdf) ==
    LET suggested == suggest_tools(request, has_pdf)
    IN  IF suggested # <<>> THEN suggested[1] ELSE "concept_explainer"

\* C4 (SpecAgent), the claim as stated: when the plan reply cannot be parsed, the
\* plan of the agent loop has exactly one step and its tool is the first tool
\* suggest_tools returns for the same request text (with or without a document).
C4_FallbackToolIsSuggested ==
    (requests_made > 0 /\ plan.kind = "json" /\ plan.fallback)
        => /\ Len(execution_plan(plan)) = 1
           /\ \E has_pdf \in BOOLEAN :
                execution_plan(plan)[1].tool = FirstSuggested(user_request, has_pdf)

\* C4, the same statement for AgentPlanner.create_plan (SpecPlanner), where the
\* fallback plan is built by _create_fallback_plan.
C4_PlannerFallbackToolIsSuggested ==
    (planner_call.op = "create_plan" /\ planner_call.plan.fallback)
        => /\ Len(planner_call.plan.steps) = 1
           /\ planner_call.plan.steps[1].tool
                = FirstSuggested(planner_call.request, planner_call.has_pdf)

\* C5 (SpecRagApi): for every text of fewer than 50 characters after stripping
\* (the empty text included) process_pdf returns failure and leaves the index and the
\* chunk count exactly as they were; no index is ever built from such a text.
C5_ShortTextRejected ==
    /\ (last_call.op = "process_pdf" /\ last_call.text.strip_len < MinTextLen)
         => /\ ~last_call.success
            /\ vectorstore = pre_call.vectorstore
            /\ chunk_count = pre_call.chunk_count
    /\ is_ready => vectorstore.source.strip_len >= MinTextLen

\* C5 witness: process_pdf was called with a 49-character text while an index of an
\* earlier document existed.
C5_Witness ==
    /\ last_call.op = "process_pdf"
    /\ last_call.text = TextShort
    /\ embeddings
    /\ is_ready
    /\ chunk_count > 0

\* The tools recorded in self.tools_used by the running execute().
RecordedNow == SubSeq(tools_used, tools_at_start + 1, Len(tools_used))

\* The number of synthesis calls made for the running request.
SynthesisCalls == Cardinality({ i \in 1..Len(llm_calls) : llm_calls[i] = "synthesis" })

\* C6 (SpecAgent), the claim as stated: when exactly one step ran, no synthesis call
\* is made and the reply execute returns is exactly that step's raw tool output.
C6_SingleStepRawOutput ==
    (pc = "done" /\ Len(results) = 1)
        => /\ SynthesisCalls = 0
           /\ final_response = << results[1].result >>

\* C6 as amended (SpecAgent): when exactly one step ran, no synthesis call is made and
\* the reply is that step's raw tool output followed by the plan's suggestion block;
\* it is exactly the raw output when the plan has no suggestion.
C6_SingleStepOutputThenSuggestions ==
    (pc = "done" /\ Len(results) = 1)
        => /\ SynthesisCalls = 0
           /\ Head(final_response) = results[1].result
           /\ Tail(final_response) = SuggestionBlock(plan.proactive_suggestions)
           /\ plan.proactive_suggestions = <<>> => final_response = << results[1].result >>

\* C6 witness: a single-step request whose plan carries two suggestions has returned.
C6_Witness ==
    /\ pc = "done"
    /\ Len(results) = 1
    /\ results[1].result.kind = "text"
    /\ Len(plan.proactive_suggestions) = 2
    /\ Len(final_response) = 4

\* C7 (SpecAgent), the claim as stated: a synthesis call is made for a request if and
\* only if more than one step ran; it is made once, after all steps, with the results
\* of all steps, and its output is the final text.
C7_SynthesisIffMultiStep ==
    /\ pc = "exec" => SynthesisCalls = 0
    /\ pc = "done" =>
         /\ SynthesisCalls = (IF Len(results) > 1 THEN 1 ELSE 0)
         /\ Len(results) > 1 =>
              /\ Len(results) = Len(execution_plan(plan))
              /\ Head(final_response).kind \in {"synthesis", "llm_error"}
              /\ Head(final_response).results = results

\* C8 (SpecAgent): in the single-step and in the multi-step case the reply ends with
\* a bulleted list of every proactive suggestion of the plan, in plan order, when the
\* plan has any; when it has none, nothing follows the reply text.
C8_SuggestionsAppended ==
    pc = "done" =>
        LET sg == plan.proactive_suggestions
            n  == Len(sg)
        IN  IF n = 0 THEN Len(final_response) = 1
            ELSE /\ Len(final_response) = n + 2
                 /\ final_response[2] = "I can also help you with:"
                 /\ \A i \in 1..n : final_response[2 + i] = [bullet |-> sg[i]]

\* C8 witness: a two-step request whose plan carries two suggestions has returned,
\* with the two bullets last.
C8_Witness ==
    /\ pc = "done"
    /\ Len(results) = 2
    /\ plan.proactive_suggestions = << "review notes", "try a quiz" >>
    /\ final_response[4] = [bullet |-> "try a quiz"]

\* C9 (SpecAgent): execute runs the steps one after another in the order the plan
\* lists them, each once, whatever their step numbers and dependencies: the tools
\* invoked so far are those of the first steps of the plan, in order, the results are
\* those of the same steps in the same order, and a request that returns ran them all.
C9_StepsRunInPlanOrder ==
    (pc \in {"exec", "done", "raised"} /\ plan.kind = "json") =>
        LET steps == execution_plan(plan)
        IN  /\ Len(invoked) <= Len(steps)
            /\ \A i \in 1..Len(invoked) : invoked[i] = steps[i].tool
            /\ Len(results) = step_index
            /\ Len(results) <= Len(invoked)
            /\ Len(invoked) <= Len(results) + 1
            /\ \A i \in 1..Len(results) :
                 /\ results[i].step = steps[i].step
                 /\ results[i].action = steps[i].action
                 /\ results[i].tool = steps[i].tool
            /\ pc = "done" => Len(results) = Len(steps)

\* C9 witness: a plan whose first step is numbered 2 and depends on step 3, followed
\* by step 3 and step 1, has run to the end.
C9_Witness ==
    /\ pc = "done"
    /\ execution_plan(plan) = << StepQuiz, StepNoTool, StepExplain >>
    /\ invoked = << "quiz_generator", NoTool, "concept_explainer" >>

\* C10 (SpecAgent), the claim as stated: every step that was invoked has its tool
\* name in tools_used, whether the call returned normally, returned an error string,
\* named an unknown tool or raised.
C10_EveryInvokedToolRecorded ==
    requests_made > 0 => RecordedNow = invoked

\* C10 as amended (SpecAgent): every invoked step whose tool call returned (normally,
\* with an error string, or with the not-found message) has its tool name appended to
\* tools_used, in order; the step whose call raised is the only invoked one missing.
C10_EveryReturnedToolRecorded ==
    requests_made > 0 =>
        /\ Len(RecordedNow) = Len(results)
        /\ \A i \in 1..Len(results) : RecordedNow[i] = results[i].tool
        /\ \A i \in 1..Len(RecordedNow) : RecordedNow[i] = invoked[i]
        /\ pc # "raised" => RecordedNow = invoked
        /\ (pc = "raised" /\ plan.kind = "json") => Len(invoked) = Len(RecordedNow) + 1

\* C10 witness: a request has returned whose first tool gave an error string and whose
\* second step named no known tool, after an earlier request had recorded tools.
C10_Witness ==
    /\ pc = "done"
    /\ tools_at_start > 0
    /\ Len(results) = 3
    /\ results[1].result.kind = "error"
    /\ results[2].result.kind = "not_found"
    /\ RecordedNow = << "quiz_generator", NoTool, "concept_explainer" >>

\* C11 (SpecChat): an exception raised while a tool is invoked is not caught in the
\* agent loop.  From the moment it is raised the request is over: the raising step is
\* the last one invoked, it left no result and no tools_used entry, no reply was
\* built and no synthesis call was made; and once chat_ui has handled it the last
\* message of the chat is the assistant's error message carrying the exception's text.
C11_ToolExceptionAbortsRequest ==
    (/\ pc \in {"raised", "idle"}
     /\ exception # None
     /\ exception.type = "Exception")
    => /\ Len(invoked) = step_index + 1
       /\ exception.text = <<"raised in", invoked[Len(invoked)]>>
       /\ Len(results) = step_index
       /\ Len(tools_used) - tools_at_start <= step_index
       /\ final_response = <<>>
       /\ llm_calls = << "plan" >>
       /\ (pc = "idle" /\ messages # <<>>)
          => LET m == messages[Len(messages)]
             IN  /\ m.role = "assistant"
                 /\ m.content.kind = "error_message"
                 /\ m.content.error = exception.text

\* C11 witness: the first step of a three-step plan raised, the two later steps never
\* ran, and the chat shows the request followed by the error message.
C11_Witness ==
    /\ pc = "idle"
    /\ exception = Raised("Exception", <<"raised in", "quiz_generator">>)
    /\ Len(execution_plan(plan)) = 3
    /\ invoked = << "quiz_generator" >>
    /\ results = <<>>
    /\ Len(messages) = 2
    /\ messages[2] = AssistantMessage([kind |-> "error_message",
                                       error |-> <<"raised in", "quiz_generator">>])

\* The number of steps that invoked tool t in the requests whose turns are retained:
\* turn_tools holds, for every turn recorded since the last New Chat, the tools its
\* request invoked.
StepsInvoking(t) ==
    LET kept == LastN(turn_tools, Len(conversation))
    IN  Cardinality(UNION { { <<i, j>> : j \in { k \in 1..Len(kept[i]) : kept[i][k] = t } }
                            : i \in 1..Len(kept) })

\* The count a usage dict reports for tool t.
Reported(usage, t) == IF t \in DOMAIN usage THEN usage[t] ELSE 0

\* C12 (SpecChat), the claim as stated: between requests, get_tool_usage() and the
\* tools_used field of the session summary report for every tool exactly the number
\* of steps that invoked it in the requests whose turns are retained.
C12_ToolUsageCountsRetainedSteps ==
    pc = "idle"
    => \A t \in AgentTools \cup {NoTool} :
         /\ Reported(get_tool_usage(conversation), t) = StepsInvoking(t)
         /\ Reported(get_session_summary.tools_used, t) = StepsInvoking(t)

\* C13 (SpecMemory), the claim as stated: get_context(max_length) returns the first
\* min(len, max_length) characters of the context string, and the whole string when
\* it already fits.
C13_ContextIsHead ==
    last_read.op = "get_context"
    => LET str == JoinLines(current_context)
           n   == StringLen(str)
       IN  /\ last_read.result = Slice(str, 0, Min(n, last_read.max_length))
           /\ n <= last_read.max_length => last_read.result = str

\* C13 as amended (SpecMemory): get_context(max_length) returns the whole context
\* string when it fits, and otherwise, for max_length >= 1, its last max_length
\* characters: the string is cut at the left, the oldest text is dropped.
C13_ContextIsTail ==
    last_read.op = "get_context"
    => LET str == JoinLines(current_context)
           n   == StringLen(str)
           k   == last_read.max_length
       IN  /\ n <= k => last_read.result = str
           /\ (n > k /\ k >= 1)
              => /\ last_read.result = Slice(str, n - k, n)
                 /\ StringLen(last_read.result) = k

\* C13 witness: a context string of more than 200 characters was read with
\* max_length = 200, and what came back is not its first 200 characters.
C13_Witness ==
    /\ last_read.op = "get_context"
    /\ last_read.max_length = 200
    /\ StringLen(JoinLines(current_context)) > 200
    /\ StringLen(last_read.result) = 200
    /\ last_read.result # Slice(JoinLines(current_context), 0, 200)

\* C14 (SpecMemory): every turn held in the conversation log has an assistant text of
\* at most 500 characters, and it is the first 500 characters of the response that
\* was passed to add_turn for that turn (the whole response when it is shorter),
\* whatever the length of that response.
C14_StoredResponseCapped ==
    LET k == Len(recorded)
        n == Len(conversation)
    IN  /\ n <= k
        /\ \A i \in 1..n :
             LET stored == conversation[i].agent_response
                 given  == recorded[k - n + i].agent_response
             IN  /\ stored.len <= 500
                 /\ stored.body = given.body
                 /\ stored.len = IF given.len <= 500 THEN given.len ELSE 500

\* C14 witness: the log holds a turn whose response was 501 characters long when it
\* was recorded and is stored with 500, next to one stored whole.
C14_Witness ==
    /\ Len(conversation) >= 2
    /\ \E i \in 1..Len(conversation) :
         /\ recorded[Len(recorded) - Len(conversation) + i].agent_response.len = 501
         /\ conversation[i].agent_response.len = 500
    /\ \E i \in 1..Len(conversation) : conversation[i].agent_response.len = 120

\* C15 (SpecSession): start_new_session() archives and resets.  Every step that
\* changes long-term memory appends exactly one StudySession, whose total_turns and
\* per-tool counts are those of the session summary just before the call; after the
\* step the turn log and the context string are empty and the session summary
\* reports zero interactions and no tool usage.
C15_NewSessionArchivesAndResets ==
    [][ study_sessions' # study_sessions
        => /\ Len(study_sessions') = Len(study_sessions) + 1
           /\ SubSeq(study_sessions', 1, Len(study_sessions)) = study_sessions
           /\ LET session == study_sessions'[Len(study_sessions')]
              IN  /\ session.total_turns = get_session_summary.total_interactions
                  /\ session.total_turns = Len(conversation)
                  /\ session.tools_used_count = get_session_summary.tools_used
           /\ conversation' = <<>>
           /\ current_context' = <<>>
           /\ get_session_summary'.total_interactions = 0
           /\ DOMAIN (get_session_summary'.tools_used) = {} ]_vars

\* C15 witness: a session of three turns, in which concept_explainer ran twice and
\* quiz_generator once, was archived by start_new_session and the log is empty.
C15_Witness ==
    /\ Len(study_sessions) = 1
    /\ study_sessions[1].total_turns = 3
    /\ DOMAIN study_sessions[1].tools_used_count = {"concept_explainer", "quiz_generator"}
    /\ study_sessions[1].tools_used_count["concept_explainer"] = 2
    /\ study_sessions[1].tools_used_count["quiz_generator"] = 1
    /\ conversation = <<>>
    /\ current_context = <<>>
    /\ clock = 3

\* The tools whose keyword set has a keyword in the request.
MatchedTools(request) ==
    LET req == lower(request)
    IN  { t \in Range(RegisteredTools) :
            \/ t = "concept_explainer"  /\ AnyKeyword(explain_keywords, req)
            \/ t = "content_summarizer" /\ AnyKeyword(summarize_keywords, req)
            \/ t = "quiz_generator"     /\ AnyKeyword(quiz_keywords, req)
            \/ t = "question_solver"    /\ AnyKeyword(solve_keywords, req)
            \/ t = "answer_evaluator"   /\ AnyKeyword(evaluate_keywords, req) }

\* The place of a tool in the declaration order explain, summarize, quiz, solve,
\* evaluate.
DeclarationIndex(t) ==
    CASE t = "concept_explainer"  -> 1
      [] t = "content_summarizer" -> 2
      [] t = "quiz_generator"     -> 3
      [] t = "question_solver"    -> 4
      [] t = "answer_evaluator"   -> 5

C17_NoDocumentToolWithoutDocument ==
    suggest_call.op = "suggest_tools"
    => LET r == suggest_call.result
           matched == MatchedTools(suggest_call.request)
       IN  /\ ~suggest_call.has_pdf
              => /\ "content_summarizer" \notin Range(r)
                 /\ \A i \in 1..Len(r) : ~requires_pdf(r[i])
           /\ ("concept_explainer" \in matched \/ matched = {})
              => "concept_explainer" \in Range(r)

\* C17 witness: without a document, a request for a summary and an explanation got
\* the explain tool alone.
C17_Witness ==
    /\ suggest_call.op = "suggest_tools"
    /\ ~suggest_call.has_pdf
    /\ suggest_call.request = << "Summary", "EXPLAIN" >>
    /\ suggest_call.result = << "concept_explainer" >>

\* C18 (SpecRagApi), the claim as stated: whenever the retriever holds no index,
\* is_ready() is false, the chunk count is 0 and a retrieve_context call has returned
\* the empty string; and a reset() has always led to this state.
C18_NoIndexMeansEmptyRetriever ==
    /\ vectorstore = None
       => /\ ~is_ready
          /\ get_chunk_count = 0
          /\ last_call.op = "retrieve_context" => last_call.result = EmptyString
    /\ last_call.op = "reset"
       => /\ vectorstore = None
          /\ ~is_ready
          /\ get_chunk_count = 0

\* C19 (SpecSummarize), the claim as stated: when the session holds a document of
\* fewer than 50 characters after stripping, a summarize call made by the Summarizer
\* mode, by the Summarize button or by the agent's content_summarizer tool has
\* returned the fixed too-short message and has not called the language model.
C19_ShortDocumentNeverSummarized ==
    (/\ summary_call.op = "summarize_text"
     /\ summary_call.document # None
     /\ summary_call.document.strip_len < 50)
    => /\ summary_call.result = TooShortMessage
       /\ ~summary_call.llm_called

\* C20 (SpecLlm): generate_response never raises.  For every prompt, every way the
\* import ended and every backend outcome, the call of either helper returned a
\* string; when the client was not configured, or the backend call threw or gave an
\* answer without text, the string is an error string naming the failure; an empty
\* output comes back as a string too (the empty string, or the no-response notice).
C20_GenerateResponseNeverRaises ==
    llm_call.op = "generate_response"
    => LET r == llm_call.result
           cfg == IF llm_call.module = "groq_helper" THEN llm_config.groq
                  ELSE llm_config.gemini
           failed == \/ ~cfg.api_configured
                     \/ llm_call.outcome \in {"throws", "none", "no_choices"}
       IN  /\ r.kind # "raised"
           /\ r.kind \in {"text", "empty", "notice", "error_string"}
           /\ failed => (r.kind = "error_string" /\ r.text # "" /\ r.error # "")
           /\ (cfg.api_configured /\ llm_call.outcome = "throws")
              => r.error = "throws"
           /\ (~failed /\ llm_call.outcome = "empty") => r.kind \in {"empty", "notice"}
           /\ (~failed /\ llm_call.outcome = "content")
              => r = [kind |-> "text", to |-> llm_call.prompt]

\* C20 witness: the configured Groq client's API call threw on a 20000-character
\* prompt and generate_response returned the Groq error string.
C20_Witness ==
    /\ llm_call.op = "generate_response"
    /\ llm_call.module = "groq_helper"
    /\ llm_config.groq.api_configured
    /\ llm_call.outcome = "throws"
    /\ llm_call.prompt.len = 20000
    /\ llm_call.result = [kind |-> "error_string", text |-> "Groq API error",
                          error |-> "throws"]

\* C24 (SpecMemory), the claim as stated: for every max_length >= 0, 0 included, and
\* every state of the conversation log, the string get_context(max_length) returned
\* has at most max_length characters.
C24_ContextWithinMaxLength ==
    last_read.op = "get_context"
    => StringLen(last_read.result) <= last_read.max_length

\* C25 (SpecTools), the claim as stated: suggest_tools returns at least one tool name
\* for every request text and both values of has_pdf, a request that matches only
\* the summarize keywords while no document is loaded included.
C25_SuggestionsNeverEmpty ==
    suggest_call.op = "suggest_tools" => Len(suggest_call.result) >= 1

\* C30 (SpecRagApi), the claim as stated: in every reachable state of the retriever
\* get_chunk_count() is the number of chunks of the index that queries are served
\* from, and is 0 when is_ready() is false, also after an indexing attempt that
\* split the text and then failed.
C30_ChunkCountIsIndexSize ==
    IF is_ready THEN get_chunk_count = vectorstore.chunks
    ELSE get_chunk_count = 0

\* C27 (SpecUpload), the claim as stated: after any sequence of uploads and RAG
\* resets the session flag rag_enabled is true exactly when the retriever
\* is_ready(); so no index is ready while the sidebar reports direct PDF content,
\* and the Reset RAG button, offered while rag_enabled, is there for every index.
C27_FlagIffRetrieverReady ==
    rag_enabled <=> is_ready

\* C28 (SpecChat), the claim as stated: a turn stored in the conversation log is not
\* changed by later requests.  At every moment the tools_used list of every
\* retained turn holds exactly the tools that turn's own request invoked, also
\* while and after further requests run and after a new session was started.
C28_StoredToolsAreOwnTools ==
    LET kept == LastN(turn_tools, Len(conversation))
    IN  \A i \in 1..Len(conversation) : tools_of(conversation[i]) = kept[i]

\* C26 (SpecChat), the claim as stated: after execute(request) has returned,
\* get_thinking_trace() describes the plan that was executed for that request, also
\* when planning fell back after a parse failure: the plan it reads is the plan of
\* this request, not of an earlier one, and the trace lists its steps and is not
\* the empty trace of an agent that never planned.
C26_TraceDescribesExecutedPlan ==
    pc = "done"
    => LET trace == get_thinking_trace(current_plan)
       IN  /\ current_plan # NoPlan
           /\ current_plan = plan
           /\ trace.kind = "trace"
           /\ trace.steps = execution_plan(plan)

\* The number of planning calls among the language-model calls of the request.
PlanningCalls == Cardinality({ i \in 1..Len(llm_calls) : llm_calls[i] = "plan" })

\* The steps execute can run for the plan think returned: none for a reply that is
\* no JSON object, on which plan.get raises.
StepsToRun == IF plan.kind = "json" THEN execution_plan(plan) ELSE <<>>

\* What holds at every moment of a request that was started.
OnePassThroughPhases ==
    pc # "idle"
    => /\ PlanningCalls = 1
       /\ llm_calls[1] = "plan"
       /\ SynthesisCalls <= 1
       \* no step runs twice: the tools invoked are those of the plan's first steps
       /\ Len(invoked) <= Len(StepsToRun)
       /\ \A i \in 1..Len(invoked) : invoked[i] = StepsToRun[i].tool
       /\ Len(results) = step_index
       \* while steps run, synthesis has not started
       /\ pc = "exec" => (SynthesisCalls = 0 /\ final_response = <<>>)
       \* once synthesis ran, every step of the plan was invoked exactly once
       /\ pc = "done" => /\ step_index = Len(StepsToRun)
                         /\ Len(invoked) = Len(StepsToRun)

\* C21 (SpecAgentLive): each request goes through plan, execute, synthesize in that
\* order, once.  Exactly one planning call is made, before any tool is invoked; the
\* tools invoked are the plan's steps in order, none twice, also after a result
\* that is an error string; no tool is invoked once synthesis has started; and every
\* request that was started ends, by returning or by raising.
C21_PlanExecuteSynthesizeOnce ==
    /\ []OnePassThroughPhases
    /\ [][pc = "done" => (invoked' = invoked \/ pc' = "exec" \/ pc' = "raised")]_vars
    /\ (pc = "exec") ~> (pc \in {"done", "raised"})

\* C21 witness: a three-step plan whose first tool returned an error string ran to
\* its end: three tools invoked, one planning call followed by one synthesis call.
C21_Witness ==
    /\ pc = "done"
    /\ Len(execution_plan(plan)) = 3
    /\ Len(invoked) = 3
    /\ results[1].result.kind = "error"
    /\ llm_calls = << "plan", "synthesis" >>

\* The chat log while no request is running: user and assistant messages alternate,
\* starting with a user message; while a request runs, its user message is the one
\* message without an answer yet.
LogAlternates ==
    /\ \A i \in 1..Len(messages) :
         messages[i].role = (IF i % 2 = 1 THEN "user" ELSE "assistant")
    /\ Len(messages) % 2 = (IF pc = "idle" THEN 0 ELSE 1)

\* C22 (SpecChat), the claim as stated: every failure is scoped to the request it
\* happened in.  Each submitted message gets exactly one user and one assistant
\* message, so the log alternates; and a request for which execute returned a
\* response, planned by the fallback so that nothing of this request can break the
\* thinking trace, is processed to its end whatever happened to the requests before
\* it: use_agentic_mode returns the response, which it does exactly when it has
\* passed remember_interaction.
C22_FailuresScopedToRequest ==
    /\ []LogAlternates
    /\ [][(pc = "done" /\ pc' = "idle" /\ plan = think_fallback(user_request))
          => Len(turn_tools') = Len(turn_tools) + 1]_vars

\* The first DirectBudget characters of the text of the upload the session holds.
UploadedTextCut ==
    IF pdf_raw = Absent THEN EmptyString
    ELSE IF pdf_raw.len = 0 THEN EmptyString
    ELSE TextCut(pdf_raw, DirectBudget)

\* The upload the session holds was refused by process_pdf because the embedding
\* model is not initialized (rag_system.py lines 57-58).
IndexingFailedNoEmbeddings ==
    /\ last_call.op = "process_pdf"
    /\ ~last_call.success
    /\ last_call.message = "embedding model not initialized"
    /\ last_call.text = pdf_raw

\* C23 (SpecFallback), the claim as stated: once indexing of the upload failed
\* because the embedding model is unavailable, the retriever is not ready, and the
\* document context built for the agent's tools and for the explainer is the first
\* 8000 characters of the uploaded text, built without a retrieval call.
C23_FallbackIsUploadedTextCut ==
    IndexingFailedNoEmbeddings
    => /\ ~is_ready
       /\ summary_call.op \in {"explain_concept", "_execute_tool"}
          => /\ ~summary_call.retrieval
             /\ summary_call.context = UploadedTextCut

\* C29 (SpecExecutor), the claim as stated: every execute call is recorded.  After
\* any sequence of execute calls, total_executions of get_execution_summary is the
\* number of calls made, and failed is the number of calls that returned
\* success = False.
C29_EveryCallRecorded ==
    LET summary == get_execution_summary(execution_history)
        unsuccessful == { i \in 1..Len(executor_returns) : ~executor_returns[i].success }
    IN  /\ summary.total_executions = Len(executor_returns)
        /\ summary.failed = Cardinality(unsuccessful)

====
